---------------------------- MODULE Spec2Model ----------------------------
(***************************************************************************)
(* Model of tools/dev/scan_dependencies.py (class DependencyScanner).      *)
(*                                                                         *)
(* A dotted module name ("pkg.util") is the sequence of its segments       *)
(* (<<"pkg", "util">>); a relative path is the sequence of its directory   *)
(* names followed by the file stem, the ".py" suffix being implied.  No    *)
(* segment of the model contains a dot, so str(path).replace(os.sep, '.')  *)
(* followed by split('.') yields the path's own segments.  Graph nodes,    *)
(* import root names and package names are plain strings, as in the code.  *)
(***************************************************************************)
EXTENDS Naturals, Sequences, FiniteSets

VARIABLES
    tree,                 \* the .py files under scan_dir (relative paths)
    content,              \* path -> what open()/ast.parse() give for the file
    local_modules,        \* self.local_modules
    file_to_module,       \* self.file_to_module
    dependency_graph,     \* self.dependency_graph: node -> set of nodes
    graph_keys,           \* the keys of self.dependency_graph, in insertion order
    scanned,              \* files the loop of scan_directory has been through
    all_imports,          \* scan_directory's all_imports
    file_imports,         \* scan_directory's file_imports
    file_local_imports,   \* scan_directory's file_local_imports
    pc,                   \* where scan_directory stands
    loop_idx,             \* position of the top-level loop over graph_keys
    visited,              \* _detect_circular_dependencies' visited
    rec_stack,            \* the rec_stack of the running top-level traversal
    frames,               \* the active calls of dfs, outermost first
    entered,              \* history: node -> number of times dfs entered it
    all_cycles,           \* _detect_circular_dependencies' all_cycles
    unique_cycles,        \* the value _detect_circular_dependencies returns
    third_party_imports,  \* results['third_party_imports']
    third_party_packages  \* results['third_party_packages']

vars == <<tree, content, local_modules, file_to_module, dependency_graph,
          graph_keys, scanned, all_imports, file_imports, file_local_imports,
          pc, loop_idx, visited, rec_stack, frames, entered, all_cycles,
          unique_cycles, third_party_imports, third_party_packages>>

scanVars == <<scanned, all_imports, file_imports, file_local_imports,
              dependency_graph, graph_keys>>
dfsVars == <<loop_idx, visited, rec_stack, frames, entered, all_cycles>>
outVars == <<unique_cycles, third_party_imports, third_party_packages>>
fixedVars == <<tree, content, local_modules, file_to_module>>

---------------------------------------------------------------------------
(* Bounds of the model.                                                    *)

\* at most this many files in the scanned tree
MaxFiles == 2

\* at most this many edges in a graph handed directly to the cycle detector
MaxEdges == 4

---------------------------------------------------------------------------
(* Sequences and the order of strings.                                     *)

Range(s) == {s[i] : i \in 1..Len(s)}

Last(s) == s[Len(s)]

Front(s) == SubSeq(s, 1, Len(s) - 1)

\* list.index(x): the first position of x, 0 standing for ValueError
Index(s, x) ==
    IF x \in Range(s) THEN CHOOSE i \in 1..Len(s) : s[i] = x /\ \A j \in 1..(i-1) : s[j] # x
    ELSE 0

\* The strings of the model in Python's order of str (code points).
SortedNames ==
    << ".hid", "PIL", "Pillow", "__init__", "a", "b", "c", "config", "d",
       "json", "pkg", "pywin32", "requests", "sub", "sys", "util",
       "win32api", "win32con" >>

Rank(n) == Index(SortedNames, n)

\* min(xs) of a non-empty list of strings
Min(s) == CHOOSE x \in Range(s) : \A y \in Range(s) : Rank(x) <= Rank(y)

\* sorted(xs): the elements of the list in increasing order, repeats kept
RECURSIVE Sorted(_)
Sorted(s) ==
    IF s = <<>> THEN <<>>
    ELSE LET i == CHOOSE k \in 1..Len(s) : \A j \in 1..Len(s) : Rank(s[k]) <= Rank(s[j])
             rest == [k \in 1..(Len(s) - 1) |-> IF k < i THEN s[k] ELSE s[k + 1]]
         IN  <<s[i]>> \o Sorted(rest)

\* the elements of a set of strings as a list (the order a loop over the set
\* takes; every list built from it is sorted or treated as a set afterwards)
RECURSIVE SetToSeq(_)
SetToSeq(S) ==
    IF S = {} THEN <<>>
    ELSE LET x == CHOOSE y \in S : \A z \in S : Rank(y) <= Rank(z)
         IN  <<x>> \o SetToSeq(S \ {x})

---------------------------------------------------------------------------
(* Static tables.                                                          *)

\* sys.builtin_module_names (the interpreter's table; the names that matter)
builtin_modules == {"sys", "builtins", "marshal", "gc"}

stdlib_modules ==
    { "os", "sys", "time", "json", "re", "math", "random", "datetime",
      "pathlib", "collections", "itertools", "functools", "operator",
      "traceback", "logging", "threading", "subprocess", "shutil",
      "tempfile", "glob", "pickle", "csv", "urllib", "http", "socket",
      "ssl", "hashlib", "base64", "uuid", "typing", "abc", "enum",
      "ctypes", "queue", "struct", "array", "bisect", "heapq",
      "weakref", "copy", "pprint", "reprlib", "string", "textwrap",
      "unicodedata", "stringprep", "readline", "rlcompleter",
      "warnings", "contextlib", "io", "email", "mailcap", "mailbox",
      "mimetypes", "binhex", "binascii", "quopri", "uu",
      "html", "xml", "webbrowser", "cgi", "cgitb", "wsgiref",
      "ftplib", "poplib", "imaplib", "nntplib", "smtplib", "smtpd",
      "telnetlib", "socketserver", "xmlrpc",
      "zipfile", "tarfile", "gzip", "bz2", "lzma", "zlib",
      "hmac", "secrets", "argparse", "getopt", "configparser",
      "netrc", "xdrlib", "plistlib", "platform", "errno", "getpass",
      "termios", "tty", "pty", "fcntl", "pipes", "resource", "nis",
      "syslog", "optparse", "imp", "importlib", "concurrent", "asyncio",
      "venv", "ensurepip" }

package_mappings ==
    [ n \in { "maa", "win32api", "win32con", "win32gui", "win32process",
              "win32ui", "win32clipboard", "win32file", "win32pipe",
              "win32event", "win32security", "win32service",
              "win32serviceutil", "pywintypes", "pythoncom", "PIL", "cv2",
              "sklearn", "yaml" } |->
        CASE n = "maa" -> "MaaFw"
          [] n = "PIL" -> "Pillow"
          [] n = "cv2" -> "opencv-python"
          [] n = "sklearn" -> "scikit-learn"
          [] n = "yaml" -> "PyYAML"
          [] OTHER -> "pywin32" ]

known_local == {"action", "include", "input", "log", "server", "config", "my_reco"}

---------------------------------------------------------------------------
(* The inputs: file trees and file contents.                               *)

\* Files a tree is drawn from.
FilePaths ==
    { <<"pkg", "__init__">>, <<"pkg", "util">>, <<"pkg", "sub", "__init__">>,
      <<"util">>, <<"json">>, <<"Pillow">>, <<".hid">> }

\* import a.b, c            -> names = << <<"a","b">>, <<"c">> >>
Import(names) == [kind |-> "Import", names |-> names, module |-> <<>>, level |-> 0]

\* from [.]*module import x -> module (<<>> when absent), level = number of dots
ImportFrom(module, level) ==
    [kind |-> "ImportFrom", names |-> <<>>, module |-> module, level |-> level]

ParseError == [ok |-> FALSE, stmts |-> {}]

Parsed(stmts) == [ok |-> TRUE, stmts |-> stmts]

\* What a file may hold.
FileContents ==
    { ParseError,
      Parsed({}),
      Parsed({ Import(<< <<"json">> >>), Import(<< <<"pkg", "util">> >>) }),
      Parsed({ Import(<< <<"requests">> >>) }),
      Parsed({ Import(<< <<"win32api">>, <<"win32con">> >>),
               ImportFrom(<<"PIL">>, 0) }),
      Parsed({ ImportFrom(<<>>, 1), ImportFrom(<<"util">>, 1),
               Import(<< <<"util">> >>), ImportFrom(<<"config", "defaults">>, 0),
               Import(<< <<"sys">> >>) }) }

\* Nodes of the graphs handed directly to the cycle detector.
Nodes == {"a", "b", "c", "d"}

AllNames == Range(SortedNames)

---------------------------------------------------------------------------
(* _discover_local_modules                                                 *)

\* py_file.name.startswith('.')
IsHidden(p) == Last(p) = ".hid"

Prefixes(m) == {SubSeq(m, 1, i) : i \in 1..Len(m)}

\* the names one file adds to local_modules
ModulesOfFile(p) ==
    IF Last(p) = "__init__"
    THEN IF Front(p) = <<>> THEN {} ELSE {Front(p)} \cup Prefixes(Front(p))
    ELSE {p, <<Last(p)>>}

DiscoverLocalModules(t) ==
    UNION {ModulesOfFile(p) : p \in t} \cup {<<n>> : n \in known_local}

\* self.file_to_module[str(rel_path)] = rel_path.stem
FileToModule(t) == [p \in t |-> Last(p)]

---------------------------------------------------------------------------
(* _extract_imports_from_file                                              *)

\* the root names one statement adds to all_imports
RootsOfStmt(s) ==
    IF s.kind = "Import" THEN {Head(s.names[i]) : i \in 1..Len(s.names)}
    ELSE IF s.module # <<>> /\ s.level = 0 THEN {Head(s.module)}
    ELSE {}

\* module_name in self.local_modules
IsLocalName(n, locals) == <<n>> \in locals

\* the guard of both "build the dependency graph" branches
AddsEdge(current_module, n, locals) == current_module # "" /\ IsLocalName(n, locals)

\* (all_imports, local_imports) of one file; what the except clause leaves
\* when open() or ast.parse() raises is the two empty sets
ExtractImports(c, current_module, locals) ==
    IF ~c.ok THEN [all |-> {}, local |-> {}]
    ELSE LET roots == UNION {RootsOfStmt(s) : s \in c.stmts}
         IN  [all |-> roots,
              local |-> {n \in roots : AddsEdge(current_module, n, locals)}]

\* self.file_to_module.get(str(rel_path), '')
CurrentModule(p, f2m) == IF p \in DOMAIN f2m THEN f2m[p] ELSE ""

---------------------------------------------------------------------------
(* _detect_circular_dependencies: the pieces of dfs and of the dedup loop  *)

\* a test that takes an edge from a node to itself for no cycle
OnRecStack_IgnoreSelf(neighbor, node, stack) == neighbor \in stack /\ neighbor # node

\* elif neighbor in rec_stack
OnRecStack(neighbor, node, stack) == neighbor \in stack

\* cycle = path[cycle_start:] + [neighbor]   (cycle_start is 1-based here)
CycleFrom(path, cycle_start, neighbor) ==
    SubSeq(path, cycle_start, Len(path)) \o <<neighbor>>

\* a return that leaves the node on the recursion stack
RecStackRemove_Keep(stack, node) == stack

\* rec_stack.remove(node)
RecStackRemove(stack, node) == stack \ {node}

\* a call of dfs whose returned cycles are dropped
ExtendCycles_Dropped(cycles, returned) == cycles

\* cycles.extend(dfs(...))
ExtendCycles(cycles, returned) == cycles \o returned

\* the frame of a call dfs(node, path, visited, rec_stack) after its first
\* four statements; todo is what the for loop has still to go through
EnterFrame(node, path) ==
    [node |-> node, path |-> Append(path, node),
     todo |-> dependency_graph[node], cycles |-> <<>>]

\* min_idx = cycle.index(min(cycle)); cycle[min_idx:] + cycle[:min_idx]
Normalize(cycle) ==
    LET min_idx == Index(cycle, Min(cycle))
    IN  SubSeq(cycle, min_idx, Len(cycle)) \o SubSeq(cycle, 1, min_idx - 1)

\* the loop that fills unique_cycles
RECURSIVE DedupFrom(_, _)
DedupFrom(cycles, unique) ==
    IF cycles = <<>> THEN unique
    ELSE LET normalized == Normalize(Head(cycles))
         IN  DedupFrom(Tail(cycles),
                       IF normalized \in Range(unique) THEN unique
                       ELSE Append(unique, normalized))

Dedup(cycles) == DedupFrom(cycles, <<>>)

---------------------------------------------------------------------------
(* _filter_third_party and _map_to_packages                                *)

\* the test that lets one import name through _filter_third_party
IsThirdParty(module, locals) ==
    /\ ~(module \in builtin_modules \/ module \in stdlib_modules)
    /\ ~IsLocalName(module, locals)
    /\ module # ""

RECURSIVE FilterSeq(_, _)
FilterSeq(s, locals) ==
    IF s = <<>> THEN <<>>
    ELSE (IF IsThirdParty(Head(s), locals) THEN <<Head(s)>> ELSE <<>>)
         \o FilterSeq(Tail(s), locals)

FilterThirdParty(imports, locals) == FilterSeq(SetToSeq(imports), locals)

\* self.package_mappings.get(imp, imp)
PackageName(imp) ==
    IF imp \in DOMAIN package_mappings THEN package_mappings[imp] ELSE imp

\* a pass that does not look for the package in the list
AddPackage_NoDedup(packages, package_name) == Append(packages, package_name)

\* one pass of the loop of _map_to_packages
AddPackage(packages, package_name) ==
    IF package_name \in Range(packages) THEN packages
    ELSE Append(packages, package_name)

RECURSIVE MapFrom(_, _)
MapFrom(imports, packages) ==
    IF imports = <<>> THEN packages
    ELSE MapFrom(Tail(imports), AddPackage(packages, PackageName(Head(imports))))

MapToPackages(imports) == MapFrom(imports, <<>>)

---------------------------------------------------------------------------
(* The state after DependencyScanner(scan_dir) and the first statements of *)
(* scan_directory.                                                         *)

NoGraph == [n \in AllNames |-> {}]

NoFiles == [p \in {} |-> {}]

Init ==
    /\ tree \in {t \in SUBSET FilePaths : Cardinality(t) <= MaxFiles}
    /\ content \in [tree -> FileContents]
    /\ local_modules = DiscoverLocalModules(tree)
    /\ file_to_module = FileToModule(tree)
    /\ dependency_graph = NoGraph
    /\ graph_keys = <<>>
    /\ scanned = {}
    /\ all_imports = {}
    /\ file_imports = NoFiles
    /\ file_local_imports = NoFiles
    /\ pc = "scan"
    /\ loop_idx = 1
    /\ visited = {}
    /\ rec_stack = {}
    /\ frames = <<>>
    /\ entered = [n \in AllNames |-> 0]
    /\ all_cycles = <<>>
    /\ unique_cycles = <<>>
    /\ third_party_imports = <<>>
    /\ third_party_packages = <<>>

---------------------------------------------------------------------------
(* scan_directory: the loop over the files                                 *)

\* f[p] = v added to the dict f
Put(f, p, v) == [q \in (DOMAIN f) \cup {p} |-> IF q = p THEN v ELSE f[q]]

\* one pass of the loop for a file that is not hidden
ScanFile ==
    /\ pc = "scan"
    /\ \E p \in tree \ scanned :
         /\ ~IsHidden(p)
         /\ LET current_module == CurrentModule(p, file_to_module)
                r == ExtractImports(content[p], current_module, local_modules)
            IN  /\ dependency_graph' =
                      IF r.local = {} THEN dependency_graph
                      ELSE [dependency_graph EXCEPT ![current_module] = @ \cup r.local]
                /\ graph_keys' =
                      IF r.local = {} \/ current_module \in Range(graph_keys)
                      THEN graph_keys
                      ELSE Append(graph_keys, current_module)
                /\ file_imports' = Put(file_imports, p, r.all)
                /\ file_local_imports' = Put(file_local_imports, p, r.local)
                /\ all_imports' = all_imports \cup r.all
         /\ scanned' = scanned \cup {p}
    /\ UNCHANGED <<fixedVars, pc, dfsVars, outVars>>

\* if py_file.name.startswith('.'): continue
ScanSkipHidden ==
    /\ pc = "scan"
    /\ \E p \in tree \ scanned :
         /\ IsHidden(p)
         /\ scanned' = scanned \cup {p}
    /\ UNCHANGED <<fixedVars, pc, dfsVars, outVars, all_imports, file_imports,
                   file_local_imports, dependency_graph, graph_keys>>

\* the loop is over: scan_directory calls _detect_circular_dependencies
ScanEnd ==
    /\ pc = "scan"
    /\ scanned = tree
    /\ pc' = "detect"
    /\ UNCHANGED <<fixedVars, scanVars, dfsVars, outVars>>

---------------------------------------------------------------------------
(* _detect_circular_dependencies                                           *)

Top == frames[Len(frames)]

SetTop(fr) == [frames EXCEPT ![Len(frames)] = fr]

\* for node in self.dependency_graph: if node not in visited: dfs(node, [], visited, set())
DetectStartDfs ==
    /\ pc = "detect"
    /\ frames = <<>>
    /\ loop_idx <= Len(graph_keys)
    /\ LET node == graph_keys[loop_idx]
       IN  /\ node \notin visited
           /\ visited' = visited \cup {node}
           /\ rec_stack' = {node}
           /\ frames' = <<EnterFrame(node, <<>>)>>
           /\ entered' = [entered EXCEPT ![node] = @ + 1]
    /\ UNCHANGED <<fixedVars, scanVars, pc, loop_idx, all_cycles, outVars>>

\* the same loop, for a key an earlier traversal has visited
DetectSkipVisited ==
    /\ pc = "detect"
    /\ frames = <<>>
    /\ loop_idx <= Len(graph_keys)
    /\ graph_keys[loop_idx] \in visited
    /\ loop_idx' = loop_idx + 1
    /\ UNCHANGED <<fixedVars, scanVars, pc, visited, rec_stack, frames, entered,
                   all_cycles, outVars>>

\* if neighbor not in visited: cycles.extend(dfs(neighbor, path.copy(), ...))
DfsRecurse ==
    /\ pc = "detect"
    /\ frames # <<>>
    /\ \E neighbor \in Top.todo :
         /\ neighbor \notin visited
         /\ visited' = visited \cup {neighbor}
         /\ rec_stack' = rec_stack \cup {neighbor}
         /\ frames' = Append(SetTop([Top EXCEPT !.todo = @ \ {neighbor}]),
                             EnterFrame(neighbor, Top.path))
         /\ entered' = [entered EXCEPT ![neighbor] = @ + 1]
    /\ UNCHANGED <<fixedVars, scanVars, pc, loop_idx, all_cycles, outVars>>

\* elif neighbor in rec_stack: the cycle is appended, or path.index raises
DfsFoundCycle ==
    /\ pc = "detect"
    /\ frames # <<>>
    /\ \E neighbor \in Top.todo :
         /\ neighbor \in visited
         /\ OnRecStack(neighbor, Top.node, rec_stack)
         /\ LET cycle_start == Index(Top.path, neighbor)
            IN  IF cycle_start = 0
                THEN /\ pc' = "raised"
                     /\ UNCHANGED frames
                ELSE /\ pc' = pc
                     /\ frames' = SetTop([Top EXCEPT
                            !.todo = @ \ {neighbor},
                            !.cycles = Append(@, CycleFrom(Top.path, cycle_start, neighbor))])
    /\ UNCHANGED <<fixedVars, scanVars, loop_idx, visited, rec_stack, entered,
                   all_cycles, outVars>>

\* a neighbour that is visited and not on the recursion stack: nothing happens
DfsSkip ==
    /\ pc = "detect"
    /\ frames # <<>>
    /\ \E neighbor \in Top.todo :
         /\ neighbor \in visited
         /\ ~OnRecStack(neighbor, Top.node, rec_stack)
         /\ frames' = SetTop([Top EXCEPT !.todo = @ \ {neighbor}])
    /\ UNCHANGED <<fixedVars, scanVars, pc, loop_idx, visited, rec_stack, entered,
                   all_cycles, outVars>>

\* rec_stack.remove(node); return cycles  (to the caller's cycles.extend, or
\* to all_cycles.extend of the top-level loop)
DfsReturn ==
    /\ pc = "detect"
    /\ frames # <<>>
    /\ Top.todo = {}
    /\ IF Top.node \notin rec_stack
       THEN /\ pc' = "raised"
            /\ UNCHANGED <<frames, rec_stack, all_cycles, loop_idx>>
       ELSE /\ pc' = pc
            /\ rec_stack' = RecStackRemove(rec_stack, Top.node)
            /\ IF Len(frames) > 1
               THEN /\ frames' = [Front(frames) EXCEPT
                          ![Len(frames) - 1].cycles = ExtendCycles(@, Top.cycles)]
                    /\ UNCHANGED <<all_cycles, loop_idx>>
               ELSE /\ frames' = <<>>
                    /\ all_cycles' = all_cycles \o Top.cycles
                    /\ loop_idx' = loop_idx + 1
    /\ UNCHANGED <<fixedVars, scanVars, visited, entered, outVars>>

\* the dedup loop and the return of unique_cycles
DetectDedup ==
    /\ pc = "detect"
    /\ frames = <<>>
    /\ loop_idx > Len(graph_keys)
    /\ unique_cycles' = Dedup(all_cycles)
    /\ pc' = "filter"
    /\ UNCHANGED <<fixedVars, scanVars, dfsVars, third_party_imports,
                   third_party_packages>>

---------------------------------------------------------------------------
(* scan_directory: the third-party lists and the returned dict             *)

FilterAndMap ==
    /\ pc = "filter"
    /\ LET third_party == FilterThirdParty(all_imports, local_modules)
       IN  /\ third_party_imports' = Sorted(third_party)
           /\ third_party_packages' = Sorted(MapToPackages(third_party))
    /\ pc' = "done"
    /\ UNCHANGED <<fixedVars, scanVars, dfsVars, unique_cycles>>

---------------------------------------------------------------------------

Next ==
    \/ ScanFile
    \/ ScanSkipHidden
    \/ ScanEnd
    \/ DetectStartDfs
    \/ DetectSkipVisited
    \/ DfsRecurse
    \/ DfsFoundCycle
    \/ DfsSkip
    \/ DfsReturn
    \/ DetectDedup
    \/ FilterAndMap

Spec == Init /\ [][Next]_vars

---------------------------------------------------------------------------
(* The cycle detector on its own: the state in which scan_directory calls  *)
(* _detect_circular_dependencies after scanning the flat tree a.py, b.py,  *)
(* c.py, d.py, where file n.py holds "import m" for every edge n -> m.     *)
(* Any graph of at most MaxEdges edges over Nodes arises this way, and any *)
(* order of its keys (the order in which the files were scanned).          *)

EdgeSets == {E \in SUBSET (Nodes \X Nodes) : Cardinality(E) <= MaxEdges}

FlatTree == {<<n>> : n \in Nodes}

FlatContent(E) ==
    [p \in FlatTree |-> Parsed({Import(<< <<e[2]>> >>) : e \in {x \in E : x[1] = p[1]}})]

Permutations(S) ==
    {s \in [1..Cardinality(S) -> S] : \A i, j \in 1..Cardinality(S) : s[i] = s[j] => i = j}

InitDetect ==
    /\ tree = FlatTree
    /\ \E E \in EdgeSets : content = FlatContent(E)
    /\ local_modules = DiscoverLocalModules(tree)
    /\ file_to_module = FileToModule(tree)
    /\ LET r == [p \in tree |->
                   ExtractImports(content[p], CurrentModule(p, file_to_module),
                                  local_modules)]
       IN  /\ file_imports = [p \in tree |-> r[p].all]
           /\ file_local_imports = [p \in tree |-> r[p].local]
           /\ all_imports = UNION {r[p].all : p \in tree}
           /\ dependency_graph =
                 [n \in AllNames |-> IF <<n>> \in tree THEN r[<<n>>].local ELSE {}]
    /\ graph_keys \in Permutations({n \in Nodes : dependency_graph[n] # {}})
    /\ scanned = tree
    /\ pc = "detect"
    /\ loop_idx = 1
    /\ visited = {}
    /\ rec_stack = {}
    /\ frames = <<>>
    /\ entered = [n \in AllNames |-> 0]
    /\ all_cycles = <<>>
    /\ unique_cycles = <<>>
    /\ third_party_imports = <<>>
    /\ third_party_packages = <<>>

\* a step of _detect_circular_dependencies
DetectorStep ==
    \/ DetectStartDfs
    \/ DetectSkipVisited
    \/ DfsRecurse
    \/ DfsFoundCycle
    \/ DfsSkip
    \/ DfsReturn
    \/ DetectDedup

NextDetect ==
    \/ DetectorStep
    \/ FilterAndMap

SpecDetect == InitDetect /\ [][NextDetect]_vars

---------------------------------------------------------------------------
(* Notions the claims are stated with.                                     *)

HasEdge(x, y) == y \in dependency_graph[x]

Returned == pc \in {"filter", "done"}

\* a list that ends where it starts and follows an edge at every step
ClosedWalk(c) ==
    /\ Len(c) >= 2
    /\ c[1] = c[Len(c)]
    /\ \A i \in 1..(Len(c) - 1) : HasEdge(c[i], c[i + 1])

\* the rotations of a closed list [x1 .. xk, x1]: [xj .. xk, x1 .. xj-1, xj]
ClosedRotations(c) ==
    LET k == Len(c) - 1
    IN  {[i \in 1..(k + 1) |-> c[((i - 1 + j) % k) + 1]] : j \in 0..(k - 1)}

\* the rotation of a closed list that starts at its smallest member
MinRotation(c) == CHOOSE r \in ClosedRotations(c) : r[1] = Min(c)

KeySet == Range(graph_keys)

\* the simple directed cycles of the graph, as lists of distinct nodes
SimpleCycles ==
    {s \in UNION {[1..k -> KeySet] : k \in 1..Cardinality(KeySet)} :
        /\ \A i, j \in 1..Len(s) : s[i] = s[j] => i = j
        /\ \A i \in 1..(Len(s) - 1) : HasEdge(s[i], s[i + 1])
        /\ HasEdge(s[Len(s)], s[1])}

Closed(s) == Append(s, s[1])

CycleEdges(s) == {<<Closed(s)[i], Closed(s)[i + 1]>> : i \in 1..Len(s)}

\* u stands for the simple cycle s: one of its rotations, or what the
\* normalization of the code makes of one of its rotations
Represents(u, s) ==
    \/ u \in ClosedRotations(Closed(s))
    \/ \E r \in ClosedRotations(Closed(s)) : u = Normalize(r)

Succ(S) == UNION {dependency_graph[n] : n \in S}

RECURSIVE Closure(_)
Closure(S) == LET T == S \cup Succ(S) IN IF T = S THEN S ELSE Closure(T)

\* the graph has a directed cycle (a self-edge is one)
HasCycle == \E n \in KeySet : n \in Closure(dependency_graph[n])

NoDuplicates(s) == \A i, j \in 1..Len(s) : s[i] = s[j] => i = j

\* the module id the specification gives a file: the directory's dotted path
\* for a package-init file, the file's own dotted path otherwise
CanonicalModuleId(p) == IF Last(p) = "__init__" THEN Front(p) ELSE p

\* the module id a graph node (a string without dots) names
IdOfNode(n) == <<n>>

---------------------------------------------------------------------------
(* C1: every cycle the detector returns, after normalization and           *)
(* deduplication, is a closed walk of the dependency graph: it ends with   *)
(* its first element and each step of it is an edge.                       *)
C1_ReturnedCyclesAreClosedWalks ==
    Returned => \A i \in 1..Len(unique_cycles) : ClosedWalk(unique_cycles[i])

(* C2: normalization is rotation-invariant on the cycles the detector      *)
(* finds: every rotation of a found cycle normalizes to the same list,     *)
(* that list is the rotation starting at the smallest member, and no two   *)
(* returned cycles are rotations of one another.                           *)
C2_NormalizeIsRotationInvariant ==
    /\ \A i \in 1..Len(all_cycles) :
         /\ \A r \in ClosedRotations(all_cycles[i]) :
              Normalize(r) = Normalize(all_cycles[i])
         /\ Normalize(all_cycles[i]) = MinRotation(all_cycles[i])
    /\ Returned =>
         \A i, j \in 1..Len(unique_cycles) :
            unique_cycles[i] \in ClosedRotations(unique_cycles[j]) => i = j

(* C3, as claimed: every simple directed cycle of the graph has a          *)
(* representative (up to rotation) in the returned list.                   *)
C3_EverySimpleCycleReturned ==
    Returned =>
       \A s \in SimpleCycles :
          \E i \in 1..Len(unique_cycles) : Represents(unique_cycles[i], s)

(* C3, as amended: for every simple directed cycle of the graph the        *)
(* detector finds a cycle that closes with an edge of that cycle and       *)
(* returns its normalized form; the found cycle is a closed walk through   *)
(* nodes of the graph, though not necessarily that cycle.                  *)
C3_EverySimpleCycleHasAFoundEdge ==
    Returned =>
       \A s \in SimpleCycles :
          \E i \in 1..Len(all_cycles) :
             /\ ClosedWalk(all_cycles[i])
             /\ <<all_cycles[i][Len(all_cycles[i]) - 1], all_cycles[i][1]>> \in CycleEdges(s)
             /\ Normalize(all_cycles[i]) \in Range(unique_cycles)

\* the detector has returned for a graph one of whose simple cycles it did
\* not return, while it returned another
C3_Witness ==
    /\ pc = "done"
    /\ unique_cycles # <<>>
    /\ \E s \in SimpleCycles :
          /\ Len(s) >= 2
          /\ \A i \in 1..Len(unique_cycles) : ~Represents(unique_cycles[i], s)

(* C4: the source node of every edge recorded for a file is the file's     *)
(* canonical module id, so files of different directories never share a    *)
(* node, and pkg/__init__.py importing pkg.util gives the edge from pkg.   *)
C4_EdgeSourcesAreCanonicalIds ==
    /\ \A p \in DOMAIN file_local_imports :
          \A n \in file_local_imports[p] :
             \E k \in KeySet : IdOfNode(k) = CanonicalModuleId(p) /\ HasEdge(k, n)
    /\ \A p, q \in DOMAIN file_local_imports :
          (p # q /\ file_local_imports[p] # {} /\ file_local_imports[q] # {})
             => CurrentModule(p, file_to_module) # CurrentModule(q, file_to_module)

(* C5: an edge owner -> name, and an entry name of a file's local imports, *)
(* exists only for a name classified local under the precedence            *)
(* builtin > stdlib > local: never for a builtin or stdlib name.           *)
C5_NoEdgeToBuiltinOrStdlib ==
    /\ \A k \in KeySet : \A n \in dependency_graph[k] :
          n \notin builtin_modules \cup stdlib_modules
    /\ \A p \in DOMAIN file_local_imports : \A n \in file_local_imports[p] :
          n \notin builtin_modules \cup stdlib_modules

\* the package name of an import name, per the package table
C6_Mapping(n) == IF n \in DOMAIN package_mappings THEN package_mappings[n] ELSE n

\* the extracted root names in no table and not local
C6_ThirdPartyNames ==
    {n \in all_imports :
        /\ n \notin builtin_modules
        /\ n \notin stdlib_modules
        /\ <<n>> \notin local_modules}

C6_Exact ==
    /\ NoDuplicates(third_party_packages)
    /\ Range(third_party_packages) = {C6_Mapping(n) : n \in C6_ThirdPartyNames}

(* C6, as claimed: after scan_directory third_party_packages is exactly    *)
(* the duplicate-free set of the mapped third-party names, and it holds no *)
(* builtin, stdlib or local name.                                          *)
C6_PackagesExactAndNeverLocal ==
    pc = "done" =>
       /\ C6_Exact
       /\ \A x \in Range(third_party_packages) :
             /\ x \notin builtin_modules \cup stdlib_modules
             /\ <<x>> \notin local_modules

(* C6, as amended: after scan_directory third_party_packages is exactly    *)
(* the duplicate-free set of the mapped third-party names; it holds no     *)
(* builtin or stdlib name, and a local name only as the package-table      *)
(* entry of a different import name that is not local.                     *)
C6_PackagesExact ==
    pc = "done" =>
       /\ C6_Exact
       /\ \A x \in Range(third_party_packages) :
             /\ x \notin builtin_modules \cup stdlib_modules
             /\ <<x>> \in local_modules =>
                   \E n \in C6_ThirdPartyNames :
                      n # x /\ n \in DOMAIN package_mappings /\ package_mappings[n] = x

\* a scan that met stdlib, local and third-party names, two import names of
\* one package, and a package whose name is also a local module
C6_Witness ==
    /\ pc = "done"
    /\ \E n \in all_imports : n \in stdlib_modules
    /\ \E n \in all_imports : <<n>> \in local_modules
    /\ {"win32api", "win32con"} \subseteq all_imports
    /\ "pywin32" \in Range(third_party_packages)
    /\ "Pillow" \in Range(third_party_packages)
    /\ <<"Pillow">> \in local_modules

(* C7: every dotted ancestor prefix of a module id in the local-module set *)
(* is in the set, for plain files as for package-init files, so the root   *)
(* name of an ancestor package of a file is never third-party.             *)
C7_AncestorPrefixesAreLocal ==
    pc = "done" =>
       /\ \A m \in local_modules : Prefixes(m) \subseteq local_modules
       /\ \A p \in tree : Len(p) > 1 => p[1] \notin Range(third_party_imports)

\* what the loop records for file p when the tree is t
C8_Contribution(p, t) ==
    ExtractImports(content[p], CurrentModule(p, FileToModule(t)), DiscoverLocalModules(t))

(* C8: a file that cannot be read or parsed contributes no import and no   *)
(* local import, and every other file contributes its imports and edges    *)
(* as it would had the failing file been absent from the tree.             *)
C8_FailingFileIsAsIfAbsent ==
    pc = "done" =>
       \A f \in DOMAIN file_imports :
          ~content[f].ok =>
             /\ file_imports[f] = {}
             /\ file_local_imports[f] = {}
             /\ \A g \in (DOMAIN file_imports) \ {f} :
                   /\ file_imports[g] = C8_Contribution(g, tree \ {f}).all
                   /\ file_local_imports[g] = C8_Contribution(g, tree \ {f}).local

(* C9: the detector returns a non-empty list exactly when the graph has a  *)
(* directed cycle (self-edges included), whatever the order of the nodes   *)
(* and of the neighbours.                                                  *)
C9_NonEmptyIffCyclic ==
    Returned => ((unique_cycles # <<>>) <=> HasCycle)

\* the detector has returned cycles for a graph that also has a key on no cycle
C9_Witness ==
    /\ pc = "done"
    /\ unique_cycles # <<>>
    /\ \E n \in KeySet : n \notin Closure(dependency_graph[n])
    /\ \E n \in KeySet : HasEdge(n, n)

C10_Inv ==
    /\ pc # "raised"
    /\ \A n \in AllNames : entered[n] <= 1
    /\ rec_stack \subseteq visited
    /\ frames = <<>> => rec_stack = {}
    /\ frames # <<>> =>
          /\ rec_stack = Range(Top.path)
          /\ \A i \in 1..Len(frames) :
                /\ Last(frames[i].path) = frames[i].node
                /\ Range(frames[i].path) \subseteq rec_stack

\* the work the detector has left: two steps and one per edge for every node
\* not yet visited, one step and one per neighbour still to examine for every
\* running call, the keys the top-level loop has not passed, and the dedup
\* loop.  Every step lowers it, so no run is longer than its first value.
C10_Work ==
    Cardinality(UNION {{<<n, m>> : m \in dependency_graph[n]} : n \in AllNames \ visited})
    + 2 * Cardinality(AllNames \ visited)
    + Cardinality(UNION {{<<i, m>> : m \in frames[i].todo} : i \in 1..Len(frames)})
    + Len(frames)
    + (Len(graph_keys) + 1 - loop_idx)
    + (IF pc = "detect" THEN 1 ELSE 0)

\* a return of dfs takes its node off the recursion stack and leaves visited
C10_Backtrack ==
    (frames # <<>> /\ Len(frames') < Len(frames)) =>
       /\ rec_stack' = rec_stack \ {Top.node}
       /\ visited' = visited

(* C10: the detector terminates without raising: it never raises, each of *)
(* its steps lowers the work left and it can step until it has returned;   *)
(* dfs enters each node at most once, while a call of dfs runs the         *)
(* recursion stack is the set of the elements of its path, backtracking    *)
(* takes the node off the recursion stack and not off visited, and the     *)
(* recursion stack is empty when a top-level traversal has returned.       *)
C10_TerminatesWithoutRaising ==
    /\ []C10_Inv
    /\ [][C10_Backtrack]_vars
    /\ [][DetectorStep => C10_Work' < C10_Work]_vars
    /\ [](pc = "detect" => ENABLED DetectorStep)

\* the detector has returned after entering every node and closing a cycle
\* from a call three deep
C10_Witness ==
    /\ pc = "done"
    /\ \A n \in Nodes : entered[n] = 1
    /\ \E i \in 1..Len(all_cycles) : Len(all_cycles[i]) = 4

=============================================================================
